---- MODULE Spec2Model ----
(***************************************************************************)
(* A model of ovirt4.py, the oVirt dynamic inventory script.               *)
(*                                                                         *)
(* Python strings are sequences of one-character strings, so that the     *)
(* sanitizer, strip() and the '%s' group keys work character by character. *)
(* Python dicts are functions whose domain is the set of keys.  None is    *)
(* the value None, told apart from every string.                          *)
(***************************************************************************)
EXTENDS Integers, Sequences, FiniteSets, TLC

VARIABLES pc, args, settings, api, log, data_centers, clusters, hosts, vms,
          inventory, todo, data_to_print, stdout, error, hist

vars == <<pc, args, settings, api, log, data_centers, clusters, hosts, vms,
          inventory, todo, data_to_print, stdout, error, hist>>

runvars == <<pc, args, api, log, data_centers, clusters, hosts, vms,
             inventory, todo, data_to_print, stdout, error>>

(***************************************************************************)
(* Bounds of the model.                                                    *)
(***************************************************************************)
MaxLen == 3
MaxHosts == 2
MaxVms == 1

(***************************************************************************)
(* Characters and strings.                                                 *)
(***************************************************************************)
None == <<"None">>

Ascii ==
  <<" ", "!", "\"", "#", "$", "%", "&", "'", "(", ")", "*", "+", ",", "-", ".", "/",
    "0", "1", "2", "3", "4", "5", "6", "7", "8", "9", ":", ";", "<", "=", ">", "?",
    "@", "A", "B", "C", "D", "E", "F", "G", "H", "I", "J", "K", "L", "M", "N", "O",
    "P", "Q", "R", "S", "T", "U", "V", "W", "X", "Y", "Z", "[", "\\", "]", "^", "_",
    "grave", "a", "b", "c", "d", "e", "f", "g", "h", "i", "j", "k", "l", "m", "n", "o",
    "p", "q", "r", "s", "t", "u", "v", "w", "x", "y", "z", "{", "|", "}", "~">>

\* ord(c) of a printable ASCII character: Ascii[1] is the space, code 32.
\* ("grave" stands for the grave accent, which a TLA+ string cannot hold.)
OrdTable ==
  [c \in {Ascii[i] : i \in 1..Len(Ascii)} |->
     31 + (CHOOSE i \in 1..Len(Ascii) : Ascii[i] = c)]

ord(c) == OrdTable[c]

\* The decimal digit i as a character.
Digit(i) == Ascii[17 + i]

InRange(c, lo, hi) == ord(lo) <= ord(c) /\ ord(c) <= ord(hi)

\* Lexicographic order of Python strings (used by sort_keys).
RECURSIVE StrLess(_, _)
StrLess(a, b) ==
  IF Len(b) = 0 THEN FALSE
  ELSE IF Len(a) = 0 THEN TRUE
  ELSE IF a[1] = b[1] THEN StrLess(Tail(a), Tail(b))
  ELSE ord(a[1]) < ord(b[1])

Whitespace == {" ", "\t", "\n", "\r", "\f"}

\* str.strip(): drop leading and trailing whitespace.
RECURSIVE lstrip(_)
lstrip(s) == IF Len(s) > 0 /\ s[1] \in Whitespace THEN lstrip(Tail(s)) ELSE s

RECURSIVE rstrip(_)
rstrip(s) ==
  IF Len(s) > 0 /\ s[Len(s)] \in Whitespace
  THEN rstrip(SubSeq(s, 1, Len(s) - 1))
  ELSE s

strip(s) == rstrip(lstrip(s))

(***************************************************************************)
(* to_safe (lines 274-280).                                                *)
(***************************************************************************)
\* A character the class [^A-Za-z0-9\_] (with \- appended when the dash is
\* kept) does NOT match.
ClassKeeps(c, keep_dash) ==
  \/ InRange(c, "A", "Z")
  \/ InRange(c, "a", "z")
  \/ InRange(c, "0", "9")
  \/ c = "_"
  \/ (keep_dash /\ c = "-")

\* re.sub(regex + "]", "_", word)
re_sub_class(word, keep_dash) ==
  [i \in 1..Len(word) |-> IF ClassKeeps(word[i], keep_dash) THEN word[i] ELSE "_"]

\* re.sub(r"^\_", "", word): one match at most, at the start of the string.
re_sub_leading(word) ==
  IF Len(word) > 0 /\ word[1] = "_" THEN Tail(word) ELSE word

\* self.settings['format'] raises KeyError when the section is absent.
to_safe_raises(st) == ~st.has_format

\* to_safe without the removal of the leading underscore.
to_safe_no_strip(st, word) == re_sub_class(word, ~st.replace_dash_in_groups)

\* to_safe with the test of replace_dash_in_groups inverted.
to_safe_dash_inverted(st, word) ==
  re_sub_leading(re_sub_class(word, st.replace_dash_in_groups))

to_safe(st, word) ==
  re_sub_leading(re_sub_class(word, ~st.replace_dash_in_groups))

(***************************************************************************)
(* Dicts.                                                                  *)
(***************************************************************************)
EmptyDict == <<>>

Has(d, k) == k \in DOMAIN d

\* d[k] = v
Put(d, k, v) == (k :> v) @@ d

\* Keys of dicts and attribute names of the SDK's objects (vars(obj) gives
\* the private names, with their leading underscore).
k_id == <<"i", "d">>
k_name == <<"n", "a", "m", "e">>
k_address == <<"a", "d", "d", "r", "e", "s", "s">>
k_status == <<"s", "t", "a", "t", "u", "s">>
k_cluster == <<"c", "l", "u", "s", "t", "e", "r">>
k_data_center == <<"d", "a", "t", "a", "_", "c", "e", "n", "t", "e", "r">>
k_tags == <<"t", "a", "g", "s">>
k_host == <<"h", "o", "s", "t">>
k_nics == <<"n", "i", "c", "s">>
k_os_type == <<"o", "s", "_", "t", "y", "p", "e">>
k_template == <<"t", "e", "m", "p", "l", "a", "t", "e">>
k_statistics == <<"s", "t", "a", "t", "i", "s", "t", "i", "c", "s">>
k_affinity_labels ==
  <<"a", "f", "f", "i", "n", "i", "t", "y", "_", "l", "a", "b", "e", "l", "s">>
k_affinity_groups ==
  <<"a", "f", "f", "i", "n", "i", "t", "y", "_", "g", "r", "o", "u", "p", "s">>
k_vms == <<"v", "m", "s">>
k_ovirt == <<"o", "v", "i", "r", "t">>
k_ansible_host ==
  <<"a", "n", "s", "i", "b", "l", "e", "_", "h", "o", "s", "t">>
k_meta == <<"_", "m", "e", "t", "a">>
k_all == <<"a", "l", "l">>
k_ovirt_hosts == <<"o", "v", "i", "r", "t", "_", "h", "o", "s", "t", "s">>
k_ovirt_vms == <<"o", "v", "i", "r", "t", "_", "v", "m", "s">>

Private(k) == <<"_">> \o k

\* The prefixes of the '%s' group keys of build_inventory.
p_data_center == <<"o", "v", "i", "r", "t", "_">> \o k_data_center \o <<"_">>
p_cluster == <<"o", "v", "i", "r", "t", "_">> \o k_cluster \o <<"_">>
p_tag == <<"o", "v", "i", "r", "t", "_", "t", "a", "g", "_">>
p_host == <<"o", "v", "i", "r", "t", "_">> \o k_host \o <<"_">>

(***************************************************************************)
(* The remote API: what the SDK's list() calls return.  An object is the   *)
(* dict vars(obj): attribute name -> value, each value with its Python     *)
(* kind, since get_dict_from_object selects by isinstance.                 *)
(***************************************************************************)
Str(v) == [kind |-> "str", val |-> v]
Obj(v) == [kind |-> "obj", val |-> v]
NoneVal == [kind |-> "none", val |-> None]

Scalar == {"int", "bool", "str", "none"}

\* A link to another entity (cluster.data_center, host.cluster, vm.cluster):
\* an object with an id, or None.
Link(id) == IF id = None THEN NoneVal ELSE Obj([id |-> id])

DcId == <<"d", "c", "1">>
ClusterId == <<"c", "1">>
HostId(i) == <<"h", Digit(i)>>
VmId(i) == <<"v", Digit(i)>>
GroupId(i) == <<"g", Digit(i)>>

DcNames == {<<"D", "C", " ", "1">>}
ClusterNames == {<<"c", "l", "-", "1">>}
EntityNames == {<<"w", "e", "b">>, <<"d", "b", " ", "1">>}
Address == <<"1", "0", ".", "1">>
Up == <<"u", "p">>
TagWeb == <<"w", "e", "b">>
TagProd == <<"p", "r", "o", "d">>
TagLists == {<<>>, <<TagWeb, TagProd>>}
ManagingHost == <<"d", "b", " ", "1">>
Ip == <<"1", "0", ".", "2">>
Mac == <<"0", "0", ":", "1", "a">>
Nic == [name |-> <<"e", "t", "h", "0">>, mac |-> Obj([address |-> Mac]), ips |-> <<Ip>>]
Down == <<"d", "o", "w", "n">>
\* A VM that is down runs on no host and reports no devices; a VM that is up
\* has a managing host and reports one nic with its address.
VmStates == {Down, Up}
ManagingHostOf(status) == IF status = Up THEN ManagingHost ELSE None
DevicesOf(status) == IF status = Up THEN <<Nic>> ELSE <<>>
GroupMembers == {<<<<"w", "e", "b">>>>}
OsType == <<"o", "t", "h", "e", "r">>
TemplateName == <<"B", "l", "a", "n", "k">>
HostTagLists == {<<>>}

DataCenterObject(id, name) ==
  (Private(k_id) :> Str(id)) @@ (Private(k_name) :> Str(name))

ClusterObject(id, name, dc) ==
  (Private(k_id) :> Str(id)) @@ (Private(k_name) :> Str(name))
    @@ (Private(k_data_center) :> Link(dc))

HostObject(id, name, address, cl) ==
  (Private(k_id) :> Str(id)) @@ (Private(k_name) :> Str(name))
    @@ (Private(k_address) :> Str(address))
    @@ (Private(k_status) :> Obj(Up))
    @@ (Private(k_cluster) :> Link(cl))

\* host is the managing host's name, or None when vm.host is None.
VmObject(id, name, status, host, cl) ==
  (Private(k_id) :> Str(id)) @@ (Private(k_name) :> Str(name))
    @@ (Private(k_status) :> Obj(status))
    @@ (Private(<<"o", "s">>) :> Obj([type |-> OsType]))
    @@ (Private(k_template) :> Obj([name |-> TemplateName]))
    @@ (Private(k_host) :> IF host = None THEN NoneVal ELSE Obj([name |-> host]))
    @@ (Private(k_cluster) :> Link(cl))

AffinityGroupObject(id, name, members) ==
  (Private(k_id) :> Str(id)) @@ (Private(k_name) :> Str(name))
    @@ (Private(k_vms) :> Obj(members))

Attr(obj, k) == obj[Private(k)].val

IsNone(obj, k) == obj[Private(k)].kind = "none"

NoApi ==
  [data_centers |-> <<>>, clusters |-> <<>>, hosts |-> <<>>, host_tags |-> <<>>,
   vms |-> <<>>, vm_tags |-> <<>>, vm_devices |-> <<>>, affinity_groups |-> <<>>]

(***************************************************************************)
(* Exceptions: an uncaught exception ends the process (pc = "failed").     *)
(***************************************************************************)
Exc(type, at) == [type |-> type, at |-> at]

NoError == Exc("", "")

FirstError(errs) ==
  IF \E i \in 1..Len(errs) : errs[i] # NoError
  THEN errs[CHOOSE i \in 1..Len(errs) :
              errs[i] # NoError /\ \A j \in 1..(i - 1) : errs[j] = NoError]
  ELSE NoError

(***************************************************************************)
(* get_dict_from_object (lines 159-176).                                   *)
(***************************************************************************)
\* The attribute names of the SDK's objects, and to_safe of each of them
\* under either setting (line 164, computed once).
AttrNames ==
  {Private(k) : k \in {k_id, k_name, k_address, k_status, k_cluster,
                        k_data_center, k_host, <<"o", "s">>, k_template, k_vms}}

SafeAttr ==
  [d \in BOOLEAN |->
     [a \in AttrNames |->
        to_safe([has_format |-> TRUE, replace_dash_in_groups |-> d], a)]]

safe_key(st, key) ==
  IF key \in AttrNames THEN SafeAttr[st.replace_dash_in_groups][key]
  ELSE to_safe(st, key)

get_dict_from_object(st, obj, prefix) ==
  LET kept == {a \in DOMAIN obj : obj[a].kind \in Scalar}
      keys == {safe_key(st, prefix \o a) : a \in kept}
  IN  [k \in keys |->
         LET a == CHOOSE a \in kept : safe_key(st, prefix \o a) = k
         IN  IF obj[a].kind = "str" THEN strip(obj[a].val) ELSE obj[a].val]

\* vars(obj) is never empty for the SDK's objects, so the first key raises.
get_dict_raises(st, obj) == DOMAIN obj # {} /\ to_safe_raises(st)

(***************************************************************************)
(* The get_* methods (lines 178-234).  Each builds a dict keyed by the     *)
(* objects' ids, in the order of the listing; a later object with the same *)
(* id overwrites an earlier one.  X_raises is the exception the method     *)
(* ends with, or NoError.                                                  *)
(***************************************************************************)
Ids(list) == {Attr(list[i], k_id) : i \in 1..Len(list)}

\* The position of the last object of the list with this id.
Index(list, id) ==
  CHOOSE i \in 1..Len(list) :
    /\ Attr(list[i], k_id) = id
    /\ \A j \in (i + 1)..Len(list) : Attr(list[j], k_id) # id

Last(list, id) == list[Index(list, id)]

\* lines 178-182
get_data_centers_raises(st, list) ==
  FirstError([i \in 1..Len(list) |->
    IF get_dict_raises(st, list[i]) THEN Exc("KeyError", "to_safe") ELSE NoError])

get_data_centers(st, list) ==
  [id \in Ids(list) |-> get_dict_from_object(st, Last(list, id), <<>>)]

\* lines 184-189
get_clusters_raises(st, dcs, list) ==
  FirstError([i \in 1..Len(list) |->
    IF get_dict_raises(st, list[i]) THEN Exc("KeyError", "to_safe")
    ELSE IF IsNone(list[i], k_data_center)
         THEN Exc("AttributeError", "cluster.data_center.id")
    ELSE IF ~Has(dcs, Attr(list[i], k_data_center).id)
         THEN Exc("KeyError", "data_centers")
    ELSE NoError])

get_clusters(st, dcs, list) ==
  [id \in Ids(list) |->
     LET cluster == Last(list, id)
     IN  Put(get_dict_from_object(st, cluster, <<>>),
             k_data_center, dcs[Attr(cluster, k_data_center).id])]

\* lines 191-195
get_affinity_groups(st, list) ==
  [id \in Ids(list) |-> get_dict_from_object(st, Last(list, id), <<>>)]

\* lines 197-205
get_hosts_raises(st, cls, list) ==
  FirstError([i \in 1..Len(list) |->
    IF get_dict_raises(st, list[i]) THEN Exc("KeyError", "to_safe")
    ELSE IF IsNone(list[i], k_cluster)
         THEN Exc("AttributeError", "host.cluster.id")
    ELSE IF ~Has(cls, Attr(list[i], k_cluster).id)
         THEN Exc("KeyError", "clusters")
    ELSE NoError])

get_hosts(st, cls, list, tags) ==
  [id \in Ids(list) |->
     LET host == Last(list, id)
         d0 == get_dict_from_object(st, host, <<>>)
         d1 == Put(d0, k_status, Attr(host, k_status))
         d2 == Put(d1, k_cluster, cls[Attr(host, k_cluster).id])
     IN  Put(d2, k_tags, tags[id])]

\* lines 217-223: one nic per reported device
nic_of(device) ==
  [k \in (IF device.mac.kind # "none" THEN {"mac_address"} ELSE {})
           \cup (IF device.ips # <<>> THEN {"ip_addresses"} ELSE {}) |->
     IF k = "mac_address" THEN device.mac.val.address ELSE device.ips]

nics_of(devices) ==
  [n \in {devices[i].name : i \in 1..Len(devices)} |->
     nic_of(devices[CHOOSE i \in 1..Len(devices) :
                      /\ devices[i].name = n
                      /\ \A j \in (i + 1)..Len(devices) : devices[j].name # n])]

\* lines 229-232: the comprehension iterates the DICT get_affinity_groups
\* returns, so group is a key (an id string); the filter reads group.vms of
\* that string first, which raises AttributeError for the first group.
affinity_groups_raises(groups) ==
  IF DOMAIN groups # {} THEN Exc("AttributeError", "group.vms") ELSE NoError

\* The comprehension's value when nothing is raised: no group was iterated.
affinity_groups_of(groups) == <<>>

\* lines 207-234
get_vms_raises(st, cls, list, ags) ==
  FirstError([i \in 1..Len(list) |->
    IF get_dict_raises(st, list[i]) THEN Exc("KeyError", "to_safe")
    ELSE IF IsNone(list[i], k_cluster)
         THEN Exc("AttributeError", "vm.cluster.id")
    ELSE IF affinity_groups_raises(get_affinity_groups(st, ags)) # NoError
         THEN affinity_groups_raises(get_affinity_groups(st, ags))
    ELSE IF ~Has(cls, Attr(list[i], k_cluster).id)
         THEN Exc("KeyError", "clusters")
    ELSE NoError])

get_vms(st, cls, list, tags, devices, ags) ==
  [id \in Ids(list) |->
     LET vm == Last(list, id)
         d0 == get_dict_from_object(st, vm, <<>>)
         d1 == Put(d0, k_host,
                   IF ~IsNone(vm, k_host) THEN Attr(vm, k_host).name ELSE None)
         d2 == Put(d1, k_status, Attr(vm, k_status))
         d3 == Put(d2, k_os_type, Attr(vm, <<"o", "s">>).type)
         d4 == Put(d3, k_template, Attr(vm, k_template).name)
         d5 == Put(d4, k_nics, nics_of(devices[Index(list, id)]))
         d6 == Put(d5, k_tags, tags[id])
         d7 == Put(d6, k_statistics, EmptyDict)
         d8 == Put(d7, k_affinity_labels, <<>>)
         d9 == Put(d8, k_affinity_groups,
                   affinity_groups_of(get_affinity_groups(st, ags)))
     IN  Put(d9, k_cluster, cls[Attr(vm, k_cluster).id])]

(***************************************************************************)
(* Dict iteration order.  Python 2 iterates a dict in the order of its     *)
(* hash table: fixed for a given dict, not specified by the language.      *)
(***************************************************************************)
RECURSIVE HashOrder(_)
HashOrder(S) ==
  IF S = {} THEN <<>>
  ELSE LET x == CHOOSE x \in S : TRUE IN <<x>> \o HashOrder(S \ {x})

RECURSIVE SortedOrder(_)
SortedOrder(S) ==
  IF S = {} THEN <<>>
  ELSE LET x == CHOOSE x \in S : \A y \in S \ {x} : StrLess(x, y)
       IN  <<x>> \o SortedOrder(S \ {x})

(***************************************************************************)
(* json_format_dict (lines 282-288) and json.dumps.  The text is a         *)
(* sequence of tokens; a nested value is carried whole in its token.       *)
(***************************************************************************)
Tok(t, k, v) == [t |-> t, k |-> k, v |-> v]

Punct(t) == Tok(t, <<>>, None)

\* A newline followed by n spaces.
Newline(n) == Tok("newline", <<>>, <<Digit(n)>>)

\* indent=None
NoIndent == <<>>

RECURSIVE json_items(_, _, _)
json_items(data, keys, indent) ==
  IF keys = <<>> THEN <<>>
  ELSE (IF indent = NoIndent THEN <<>> ELSE <<Newline(indent[1])>>)
       \o <<Tok("key", keys[1], None), Punct(": "), Tok("value", keys[1], data[keys[1]])>>
       \o (IF Len(keys) > 1 THEN <<Punct(", ")>> ELSE <<>>)
       \o json_items(data, Tail(keys), indent)

\* indent is NoIndent or <<n>>.
json_dumps(data, sort_keys, indent) ==
  LET keys == IF sort_keys THEN SortedOrder(DOMAIN data) ELSE HashOrder(DOMAIN data)
  IN  IF keys = <<>> THEN <<Punct("{"), Punct("}")>>
      ELSE <<Punct("{")>> \o json_items(data, keys, indent)
           \o (IF indent = NoIndent THEN <<>> ELSE <<Newline(0)>>)
           \o <<Punct("}")>>

json_format_dict(data, pretty) ==
  IF pretty THEN json_dumps(data, TRUE, <<2>>) ELSE json_dumps(data, FALSE, NoIndent)

(***************************************************************************)
(* add_host_to_group (lines 236-239) and the loop bodies of                *)
(* build_inventory (lines 250-272).                                        *)
(***************************************************************************)
add_host_to_group(inv, host, group) ==
  LET inv1 == IF ~Has(inv, group) THEN Put(inv, group, [hosts |-> <<>>]) ELSE inv
  IN  [inv1 EXCEPT ![group].hosts = Append(@, host)]

\* line 243
InitialInventory ==
  (k_meta :> [hostvars |-> EmptyDict])
    @@ (k_all :> [children |-> <<k_ovirt_hosts, k_ovirt_vms>>])
    @@ (k_ovirt_hosts :> [hosts |-> <<>>])
    @@ (k_ovirt_vms :> [hosts |-> <<>>])

\* value['cluster']['data_center']['name'] and the like raise KeyError when a
\* key is missing.  The dicts the get_* methods build always hold these keys
\* (to_safe turns '_name' into 'name'), so no run raises here.
group_keys_raise(value) ==
  IF ~Has(value, k_name) THEN Exc("KeyError", "name")
  ELSE IF ~Has(value[k_cluster], k_data_center)
          \/ ~Has(value[k_cluster][k_data_center], k_name)
          \/ ~Has(value[k_cluster], k_name)
       THEN Exc("KeyError", "cluster")
  ELSE NoError

\* lines 251-258
host_body_raises(value) ==
  IF ~Has(value, k_address) THEN Exc("KeyError", "address")
  ELSE IF ~Has(value, k_id) THEN Exc("KeyError", "id")
  ELSE group_keys_raise(value)

\* host_vars without the comparison of the address with the id.
host_vars_always(value) == Put(k_ovirt :> value, k_ansible_host, value[k_address])

host_vars(value) ==
  IF value[k_address] # value[k_id]
  THEN Put(k_ovirt :> value, k_ansible_host, value[k_address])
  ELSE k_ovirt :> value

\* host_body with the hostvars entry stored under the host's id.
host_body_by_id(inv, value) ==
  LET name == value[k_name]
      inv1 == [inv EXCEPT ![k_meta].hostvars = Put(@, value[k_id], host_vars(value))]
      inv2 == [inv1 EXCEPT ![k_ovirt_hosts].hosts = Append(@, name)]
      inv3 == add_host_to_group(inv2, name,
                p_data_center \o value[k_cluster][k_data_center][k_name])
  IN  add_host_to_group(inv3, name, p_cluster \o value[k_cluster][k_name])

host_body(inv, value) ==
  LET name == value[k_name]
      inv1 == [inv EXCEPT ![k_meta].hostvars = Put(@, name, host_vars(value))]
      inv2 == [inv1 EXCEPT ![k_ovirt_hosts].hosts = Append(@, name)]
      inv3 == add_host_to_group(inv2, name,
                p_data_center \o value[k_cluster][k_data_center][k_name])
  IN  add_host_to_group(inv3, name, p_cluster \o value[k_cluster][k_name])

\* lines 261-272
vm_body_raises(value) ==
  IF \E n \in DOMAIN value[k_nics] : ~Has(value[k_nics][n], "ip_addresses")
  THEN Exc("KeyError", "ip_addresses")
  ELSE group_keys_raise(value)

vm_vars(value) ==
  IF DOMAIN value[k_nics] # {}
  THEN Put(k_ovirt :> value, k_ansible_host,
           value[k_nics][HashOrder(DOMAIN value[k_nics])[1]]["ip_addresses"][1])
  ELSE k_ovirt :> value

\* The tag loop leaving after the first tag.
add_to_first_tag_group(inv, name, tags) ==
  IF tags = <<>> THEN inv ELSE add_host_to_group(inv, name, p_tag \o tags[1])

RECURSIVE add_to_tag_groups(_, _, _)
add_to_tag_groups(inv, name, tags) ==
  IF tags = <<>> THEN inv
  ELSE add_to_tag_groups(add_host_to_group(inv, name, p_tag \o tags[1]),
                         name, Tail(tags))

vm_body(inv, value) ==
  LET name == value[k_name]
      inv1 == [inv EXCEPT ![k_meta].hostvars = Put(@, name, vm_vars(value))]
      inv2 == [inv1 EXCEPT ![k_ovirt_vms].hosts = Append(@, name)]
      inv3 == add_host_to_group(inv2, name,
                p_data_center \o value[k_cluster][k_data_center][k_name])
      inv4 == add_host_to_group(inv3, name, p_cluster \o value[k_cluster][k_name])
      inv5 == add_to_tag_groups(inv4, name, value[k_tags])
  IN  IF value[k_host] # None /\ value[k_host] # <<>>
      THEN add_host_to_group(inv5, name, p_host \o value[k_host])
      ELSE inv5

(***************************************************************************)
(* Specification of the sanitizer alone: a word and a setting are drawn,   *)
(* to_safe is applied to the word and then to its own result.              *)
(***************************************************************************)
Alphabet == {"a", "Z", "7", "_", "-", " ", "."}

Words == UNION {[1..n -> Alphabet] : n \in 0..MaxLen}

IdleRun ==
  /\ pc = "to_safe"
  /\ args = [host |-> None, list |-> TRUE, pretty |-> FALSE]
  /\ api = NoApi
  /\ log = <<>>
  /\ data_centers = <<>>
  /\ clusters = <<>>
  /\ hosts = <<>>
  /\ vms = <<>>
  /\ inventory = <<>>
  /\ todo = <<>>
  /\ data_to_print = <<>>
  /\ stdout = <<>>
  /\ error = NoError

SafeInit ==
  /\ IdleRun
  /\ settings \in [has_format : {TRUE}, replace_dash_in_groups : BOOLEAN]
  /\ \E w \in Words : hist = <<w>>

ApplyToSafe ==
  /\ pc = "to_safe"
  /\ Len(hist) < 3
  /\ ~to_safe_raises(settings)
  /\ hist' = Append(hist, to_safe(settings, hist[Len(hist)]))
  /\ UNCHANGED <<runvars, settings>>

SafeNext == ApplyToSafe

SafeSpec == SafeInit /\ [][SafeNext]_vars

(***************************************************************************)
(* The run: Ovirt4Inventory.__init__ (lines 68-89), one action per step.   *)
(* The command line, the settings file and the answers of the remote API   *)
(* are the inputs.                                                         *)
(***************************************************************************)
\* parse_cli_args (lines 127-136): --list is always True.
Args == [host : {None, <<"w", "e", "b">>}, list : {TRUE}, pretty : BOOLEAN]

\* read_settings (lines 91-125): the format section is optional.
Settings ==
  {[has_format |-> FALSE, replace_dash_in_groups |-> FALSE]}
    \cup [has_format : {TRUE}, replace_dash_in_groups : BOOLEAN]

Init ==
  /\ pc = "connect"
  /\ args \in Args
  /\ settings \in Settings
  /\ api = NoApi
  /\ log = <<>>
  /\ data_centers = EmptyDict
  /\ clusters = EmptyDict
  /\ hosts = EmptyDict
  /\ vms = EmptyDict
  /\ inventory = EmptyDict
  /\ todo = <<>>
  /\ data_to_print = <<>>
  /\ stdout = <<>>
  /\ error = NoError
  /\ hist = <<>>

ListCalls(n) == [i \in 1..n |-> "list"]

\* An uncaught exception: the traceback ends the process.
Raise(exc) ==
  /\ pc' = "failed"
  /\ error' = exc

\* lines 138-154
connect ==
  /\ pc = "connect"
  /\ log' = Append(log, "connect")
  /\ pc' = "build_inventory"
  /\ UNCHANGED <<args, settings, api, data_centers, clusters, hosts, vms,
                 inventory, todo, data_to_print, stdout, error, hist>>

\* line 243
build_inventory ==
  /\ pc = "build_inventory"
  /\ inventory' = InitialInventory
  /\ pc' = "get_data_centers"
  /\ UNCHANGED <<args, settings, api, log, data_centers, clusters, hosts, vms,
                 todo, data_to_print, stdout, error, hist>>

\* A list() call of the SDK fails (unreachable service, bad credentials).
ListFails ==
  /\ pc \in {"get_data_centers", "get_clusters", "get_hosts", "get_vms"}
  /\ log' = Append(log, "list")
  /\ Raise(Exc("Error", pc))
  /\ UNCHANGED <<args, settings, api, data_centers, clusters, hosts, vms,
                 inventory, todo, data_to_print, stdout, hist>>

\* line 245
GetDataCenters ==
  /\ pc = "get_data_centers"
  /\ \E list \in {<<>>} \cup {<<DataCenterObject(DcId, n)>> : n \in DcNames} :
       /\ api' = [api EXCEPT !.data_centers = list]
       /\ log' = Append(log, "list")
       /\ IF get_data_centers_raises(settings, list) # NoError
          THEN /\ Raise(get_data_centers_raises(settings, list))
               /\ UNCHANGED data_centers
          ELSE /\ data_centers' = get_data_centers(settings, list)
               /\ pc' = "get_clusters"
               /\ UNCHANGED error
  /\ UNCHANGED <<args, settings, clusters, hosts, vms, inventory, todo,
                 data_to_print, stdout, hist>>

\* line 246
GetClusters ==
  /\ pc = "get_clusters"
  /\ \E list \in {<<>>} \cup {<<ClusterObject(ClusterId, n, dc)>> :
                                n \in ClusterNames, dc \in {DcId, None}} :
       /\ api' = [api EXCEPT !.clusters = list]
       /\ log' = Append(log, "list")
       /\ IF get_clusters_raises(settings, data_centers, list) # NoError
          THEN /\ Raise(get_clusters_raises(settings, data_centers, list))
               /\ UNCHANGED clusters
          ELSE /\ clusters' = get_clusters(settings, data_centers, list)
               /\ pc' = "get_hosts"
               /\ UNCHANGED error
  /\ UNCHANGED <<args, settings, data_centers, hosts, vms, inventory, todo,
                 data_to_print, stdout, hist>>

\* line 247
GetHosts ==
  /\ pc = "get_hosts"
  /\ \E n \in 0..MaxHosts :
       \E name \in [1..n -> EntityNames], addr_is_id \in [1..n -> BOOLEAN],
          tags \in [{HostId(i) : i \in 1..n} -> HostTagLists] :
         LET list == [i \in 1..n |->
                        HostObject(HostId(i), name[i],
                                   IF addr_is_id[i] THEN HostId(i) ELSE Address,
                                   ClusterId)]
         IN  /\ api' = [api EXCEPT !.hosts = list, !.host_tags = tags]
             /\ IF get_hosts_raises(settings, clusters, list) # NoError
                THEN /\ Raise(get_hosts_raises(settings, clusters, list))
                     /\ log' = log \o ListCalls(1)
                     /\ UNCHANGED hosts
                ELSE /\ hosts' = get_hosts(settings, clusters, list, tags)
                     /\ log' = log \o ListCalls(1 + n)
                     /\ pc' = "get_vms"
                     /\ UNCHANGED error
  /\ UNCHANGED <<args, settings, data_centers, clusters, vms, inventory, todo,
                 data_to_print, stdout, hist>>

\* The affinity groups of the cluster: none, or one with the VM "web" in it.
AffinityGroupLists ==
  {<<>>} \cup {<<AffinityGroupObject(GroupId(1), <<"a", "g">>, m)>> : m \in GroupMembers}

\* line 248; then line 250 starts the loop over self.hosts
GetVms ==
  /\ pc = "get_vms"
  /\ \E n \in 0..MaxVms :
       \E name \in [1..n -> EntityNames], status \in [1..n -> VmStates],
          tags \in [{VmId(i) : i \in 1..n} -> TagLists],
          ags \in (IF n = 0 THEN {<<>>} ELSE AffinityGroupLists) :
         LET list == [i \in 1..n |->
                        VmObject(VmId(i), name[i], status[i],
                                 ManagingHostOf(status[i]), ClusterId)]
             devices == [i \in 1..n |-> DevicesOf(status[i])]
         IN  /\ api' = [api EXCEPT !.vms = list, !.vm_tags = tags,
                                   !.vm_devices = devices, !.affinity_groups = ags]
             /\ IF get_vms_raises(settings, clusters, list, ags) # NoError
                THEN /\ Raise(get_vms_raises(settings, clusters, list, ags))
                     /\ log' = log \o ListCalls(1)
                     /\ UNCHANGED <<vms, todo>>
                ELSE /\ vms' = get_vms(settings, clusters, list, tags, devices, ags)
                     /\ log' = log \o ListCalls(1 + 5 * n)
                     /\ todo' = HashOrder(DOMAIN hosts)
                     /\ pc' = "host_loop"
                     /\ UNCHANGED error
  /\ UNCHANGED <<args, settings, data_centers, clusters, hosts, inventory,
                 data_to_print, stdout, hist>>

\* lines 250-258: one iteration
HostLoop ==
  /\ pc = "host_loop"
  /\ todo # <<>>
  /\ LET value == hosts[todo[1]]
     IN  IF host_body_raises(value) # NoError
         THEN /\ Raise(host_body_raises(value))
              /\ UNCHANGED <<inventory, todo>>
         ELSE /\ inventory' = host_body(inventory, value)
              /\ todo' = Tail(todo)
              /\ UNCHANGED <<pc, error>>
  /\ UNCHANGED <<args, settings, api, log, data_centers, clusters, hosts, vms,
                 data_to_print, stdout, hist>>

\* line 260: the loop over self.hosts is exhausted
HostLoopEnd ==
  /\ pc = "host_loop"
  /\ todo = <<>>
  /\ todo' = HashOrder(DOMAIN vms)
  /\ pc' = "vm_loop"
  /\ UNCHANGED <<args, settings, api, log, data_centers, clusters, hosts, vms,
                 inventory, data_to_print, stdout, error, hist>>

\* lines 260-272: one iteration
VmLoop ==
  /\ pc = "vm_loop"
  /\ todo # <<>>
  /\ LET value == vms[todo[1]]
     IN  IF vm_body_raises(value) # NoError
         THEN /\ Raise(vm_body_raises(value))
              /\ UNCHANGED <<inventory, todo>>
         ELSE /\ inventory' = vm_body(inventory, value)
              /\ todo' = Tail(todo)
              /\ UNCHANGED <<pc, error>>
  /\ UNCHANGED <<args, settings, api, log, data_centers, clusters, hosts, vms,
                 data_to_print, stdout, hist>>

\* lines 80-84: build_inventory has returned; the data to print
DataToPrint ==
  /\ pc = "vm_loop"
  /\ todo = <<>>
  /\ IF args.host # None /\ args.host # <<>>
     THEN IF Has(inventory[k_meta].hostvars, args.host)
          THEN /\ data_to_print' =
                    json_format_dict(inventory[k_meta].hostvars[args.host], TRUE)
               /\ pc' = "disconnect"
               /\ UNCHANGED error
          ELSE /\ Raise(Exc("KeyError", "hostvars"))
               /\ UNCHANGED data_to_print
     ELSE /\ args.list
          /\ data_to_print' = json_format_dict(inventory, TRUE)
          /\ pc' = "disconnect"
          /\ UNCHANGED error
  /\ UNCHANGED <<args, settings, api, log, data_centers, clusters, hosts, vms,
                 inventory, todo, stdout, hist>>

\* __init__ going on to print without a call of disconnect.
disconnect_skipped ==
  /\ pc = "disconnect"
  /\ pc' = "print"
  /\ UNCHANGED <<args, settings, api, log, data_centers, clusters, hosts, vms,
                 inventory, todo, data_to_print, stdout, error, hist>>

\* lines 86-87, 156-157
disconnect ==
  /\ pc = "disconnect"
  /\ log' = Append(log, "close")
  /\ pc' = "print"
  /\ UNCHANGED <<args, settings, api, data_centers, clusters, hosts, vms,
                 inventory, todo, data_to_print, stdout, error, hist>>

\* line 89
PrintData ==
  /\ pc = "print"
  /\ stdout' = data_to_print
  /\ log' = Append(log, "print")
  /\ pc' = "done"
  /\ UNCHANGED <<args, settings, api, data_centers, clusters, hosts, vms,
                 inventory, todo, data_to_print, error, hist>>

Next ==
  \/ connect
  \/ build_inventory
  \/ ListFails
  \/ GetDataCenters
  \/ GetClusters
  \/ GetHosts
  \/ GetVms
  \/ HostLoop
  \/ HostLoopEnd
  \/ VmLoop
  \/ DataToPrint
  \/ disconnect
  \/ PrintData

Spec == Init /\ [][Next]_vars

(***************************************************************************)
(* Properties.                                                             *)
(***************************************************************************)
Elems(seq) == {seq[i] : i \in 1..Len(seq)}

Count(seq, e) == Cardinality({i \in 1..Len(seq) : seq[i] = e})

\* build_inventory has returned.
Built ==
  \/ pc = "vm_loop" /\ todo = <<>>
  \/ pc \in {"disconnect", "print", "done"}

HostVars == inventory[k_meta].hostvars

\* C1: in a run that has printed, the session was closed exactly once, after
\* connect and every remote list call, and before the print, in --host and
\* in --list mode alike.
C1_ClosedOnceBeforePrint ==
  "print" \in Elems(log) =>
    /\ Count(log, "close") = 1
    /\ \A i, j \in 1..Len(log) :
         /\ (log[i] = "close" /\ log[j] \in {"connect", "list"}) => j < i
         /\ (log[i] = "close" /\ log[j] = "print") => i < j

C1_Witness ==
  /\ pc = "done"
  /\ args.host # None
  /\ Count(log, "list") > 4
  /\ Count(log, "close") = 1

\* C2: once the session is open, a run that ends with an exception has closed
\* the session.
C2_ClosedOnError ==
  (pc = "failed" /\ "connect" \in Elems(log)) => "close" \in Elems(log)

\* C3: to_safe is idempotent: applying it to its own result changes nothing.
C3_Idempotent == Len(hist) = 3 => hist[3] = hist[2]

\* C3, amended: to_safe(to_safe(s)) is to_safe(s) when to_safe(s) does not
\* begin with '_', and to_safe(s) without its first '_' when it does.
C3_IdempotentUpToLeadingUnderscore ==
  Len(hist) = 3 =>
    hist[3] = IF Len(hist[2]) > 0 /\ hist[2][1] = "_"
              THEN SubSeq(hist[2], 2, Len(hist[2]))
              ELSE hist[2]

C3_Witness ==
  /\ Len(hist) = 3
  /\ hist[2] # hist[1]
  /\ Len(hist[2]) > 1
  /\ hist[2][1] # "_"
  /\ hist[3] = hist[2]

\* C4: every dynamically created group key (ovirt_data_center_*,
\* ovirt_cluster_*, ovirt_tag_*, ovirt_host_*) holds only characters the
\* sanitizer allows.
C4_GroupKeysSanitized ==
  (pc # "to_safe" /\ pc # "connect" /\ pc # "build_inventory") =>
    \A g \in DOMAIN inventory \ {k_meta, k_all} :
      \A i \in 1..Len(g) : ClassKeeps(g[i], ~settings.replace_dash_in_groups)

\* C5: with --host NAME for a name in hostvars, the output is the
\* serialization of that entry in the format --pretty selects.
C5_HostOutputFollowsPretty ==
  (pc = "done" /\ args.host # None) =>
    stdout = json_format_dict(HostVars[args.host], args.pretty)

\* The characters [A-Za-z0-9_], written out.
SafeChars ==
  {"A", "B", "C", "D", "E", "F", "G", "H", "I", "J", "K", "L", "M", "N", "O",
   "P", "Q", "R", "S", "T", "U", "V", "W", "X", "Y", "Z",
   "a", "b", "c", "d", "e", "f", "g", "h", "i", "j", "k", "l", "m", "n", "o",
   "p", "q", "r", "s", "t", "u", "v", "w", "x", "y", "z",
   "0", "1", "2", "3", "4", "5", "6", "7", "8", "9", "_"}

Replaced(c, replace_dash) ==
  IF c \in SafeChars \/ (c = "-" /\ ~replace_dash) THEN c ELSE "_"

\* C6: to_safe(s) is s with every character outside [A-Za-z0-9_] replaced by
\* '_' ('-' kept exactly when replace_dash_in_groups is false), less one
\* leading '_' if there is one; the other characters keep value and position.
C6_ToSafeCharacterised ==
  Len(hist) >= 2 =>
    LET s == hist[1]
        t == hist[2]
        r == settings.replace_dash_in_groups
        cut == IF Len(s) > 0 /\ Replaced(s[1], r) = "_" THEN 1 ELSE 0
    IN  /\ Len(t) = Len(s) - cut
        /\ \A i \in 1..Len(t) : t[i] = Replaced(s[i + cut], r)

C6_Witness ==
  /\ Len(hist) >= 2
  /\ ~settings.replace_dash_in_groups
  /\ hist[1] = <<" ", "-", "_">>
  /\ hist[2] = <<"-", "_">>

\* The hosts whose iteration of the host loop is over.
HostsDone ==
  IF pc = "host_loop" THEN DOMAIN hosts \ Elems(todo)
  ELSE IF Built \/ pc = "vm_loop" THEN DOMAIN hosts
  ELSE {}

\* C7: after each iteration of the host loop and after build_inventory, every
\* name of ovirt_hosts.hosts is a key of hostvars, and the name of every host
\* written to hostvars is in ovirt_hosts.hosts.
C7_HostsAndHostVars ==
  (pc \in {"host_loop", "vm_loop"} \/ Built) =>
    /\ Elems(inventory[k_ovirt_hosts].hosts) \subseteq DOMAIN HostVars
    /\ \A id \in HostsDone :
         hosts[id][k_name] \in Elems(inventory[k_ovirt_hosts].hosts)

C7_Witness ==
  /\ pc = "host_loop"
  /\ Len(todo) = 1
  /\ Len(inventory[k_ovirt_hosts].hosts) = 1

AnsibleHostFollowsAddress(id) ==
  LET value == hosts[id]
      entry == HostVars[value[k_name]]
  IN  IF value[k_address] # value[k_id]
      THEN Has(entry, k_ansible_host) /\ entry[k_ansible_host] = value[k_address]
      ELSE ~Has(entry, k_ansible_host)

\* C8: in the final inventory the hostvars entry under a host's name has
\* ansible_host equal to the address when the address differs from the id,
\* and no ansible_host when they are equal.
C8_AnsibleHost ==
  Built => \A id \in DOMAIN hosts : AnsibleHostFollowsAddress(id)

NameIsUnique(id) ==
  /\ \A other \in DOMAIN hosts \ {id} : hosts[other][k_name] # hosts[id][k_name]
  /\ \A vm \in DOMAIN vms : vms[vm][k_name] # hosts[id][k_name]

\* C8, amended: the same, for every host whose name no other host and no VM
\* of the inventory bears.
C8_AnsibleHostOfUniqueNames ==
  Built => \A id \in DOMAIN hosts : NameIsUnique(id) => AnsibleHostFollowsAddress(id)

C8_Witness ==
  /\ Built
  /\ \E id \in DOMAIN hosts :
       /\ NameIsUnique(id)
       /\ hosts[id][k_address] # hosts[id][k_id]
       /\ HostVars[hosts[id][k_name]][k_ansible_host] = Address
  /\ \E id \in DOMAIN hosts :
       /\ NameIsUnique(id)
       /\ hosts[id][k_address] = hosts[id][k_id]

\* C9: after build_inventory, for every VM and every tag t of it, the group
\* ovirt_tag_<t> exists and its hosts list holds the VM's name.
C9_VmInEveryTagGroup ==
  Built =>
    \A id \in DOMAIN vms :
      \A t \in Elems(vms[id][k_tags]) :
        /\ Has(inventory, p_tag \o t)
        /\ vms[id][k_name] \in Elems(inventory[p_tag \o t].hosts)

C9_Witness ==
  /\ Built
  /\ \E id \in DOMAIN vms :
       /\ vms[id][k_tags] = <<TagWeb, TagProd>>
       /\ vms[id][k_name] \in Elems(inventory[p_tag \o TagWeb].hosts)
       /\ vms[id][k_name] \in Elems(inventory[p_tag \o TagProd].hosts)

\* The names of the affinity groups of the cluster that list a VM of this name.
ExpectedAffinityGroups(vm) ==
  LET member(g) == Attr(vm, k_name) \in Elems(Attr(g, k_vms))
      RECURSIVE names(_)
      names(gs) ==
        IF gs = <<>> THEN <<>>
        ELSE (IF member(gs[1]) THEN <<Attr(gs[1], k_name)>> ELSE <<>>)
             \o names(Tail(gs))
  IN  names(api.affinity_groups)

\* C10: once the VMs are listed (the settings and the cluster being in
\* order), get_vms completes and gives every VM the names of the affinity
\* groups of its cluster that list it, also when the cluster has such groups.
C10_AffinityGroupsOfVms ==
  (Len(api.vms) > 0 /\ settings.has_format /\ Has(clusters, ClusterId)) =>
    \A i \in 1..Len(api.vms) :
      LET id == Attr(api.vms[i], k_id)
      IN  /\ Has(vms, id)
          /\ vms[id][k_affinity_groups] = ExpectedAffinityGroups(api.vms[i])

====
